---- MODULE Spec2Model ----
(***************************************************************************)
(* Model of tutor_app.py: the AI STEM tutor's handlers (text and audio     *)
(* submit, suggestion click, study-guide export, clear), the hosted calls  *)
(* they sequence, and the suggestion parser.                               *)
(*                                                                         *)
(* Text is a sequence of one-character strings, so that str.strip,         *)
(* str.split and str.startswith are computed as Python computes them.      *)
(* A hosted call (chat completion, transcription, speech synthesis) and a  *)
(* renderer are modelled by their outcome, chosen nondeterministically.    *)
(***************************************************************************)
EXTENDS Naturals, Sequences, FiniteSets, TLC

VARIABLES
    chatbot,              \* gr.Chatbot value: the transcript, a sequence of <<human, ai>>
    msg,                  \* gr.Textbox value: the pending input
    voice_toggle,         \* gr.Checkbox value
    audio_output,         \* gr.Audio (output) value: None or a file
    buttons,              \* suggestion1..3: [value, visible]
    study_guide_download, \* gr.File: [value, visible]
    study_guide_output,   \* gr.Markdown status text
    inflight,             \* the queued handler now running, with the inputs it was given
    calls,                \* the hosted and renderer calls issued by the handler started last
    hist,                 \* [last, overlap, since]: observations about the handlers started so far
    tutor_message,        \* argument of generate_suggested_responses (parser specification)
    completion,           \* outcome of its completion call (parser specification)
    suggestions,          \* its return value (parser specification)
    guide_completion,     \* outcome of the study guide's completion call (compiler specification)
    guide_text,           \* return value of generate_study_guide_content (compiler specification)
    render_outcome,       \* what befalls create_pdf: [ok, faults] (compiler specification)
    rendered              \* return value of create_pdf and the page it drew (compiler specification)

vars == <<chatbot, msg, voice_toggle, audio_output, buttons, study_guide_download,
          study_guide_output, inflight, calls, hist, tutor_message, completion, suggestions,
          guide_completion, guide_text, render_outcome, rendered>>

uiVars == <<chatbot, msg, voice_toggle, audio_output, buttons, study_guide_download,
            study_guide_output, inflight, hist>>

parserVars == <<tutor_message, completion, suggestions>>

compilerVars == <<guide_completion, guide_text, render_outcome, rendered>>

-----------------------------------------------------------------------------
(* Bounds *)

\* Longest transcript a submit handler is started on.
MaxTurns == 2

\* Longest line of a model response the parser specification enumerates.
MaxLineLen == 5

\* Most lines of a study guide the compiler specification enumerates.
MaxGuideLines == 3

-----------------------------------------------------------------------------
(* Text *)

None == "None"

IsSpace(c) == c \in {" ", "\n"}

IsDigit(c) == c \in {"0", "1", "2", "3", "4", "5", "6", "7", "8", "9"}

\* str.startswith
StartsWith(s, p) == Len(s) >= Len(p) /\ SubSeq(s, 1, Len(p)) = p

RECURSIVE LStrip(_)
LStrip(s) == IF s = <<>> THEN s
             ELSE IF IsSpace(Head(s)) THEN LStrip(Tail(s)) ELSE s

RECURSIVE RStrip(_)
RStrip(s) == IF s = <<>> THEN s
             ELSE IF IsSpace(s[Len(s)]) THEN RStrip(SubSeq(s, 1, Len(s) - 1)) ELSE s

\* str.strip()
Strip(s) == RStrip(LStrip(s))

\* str.find: the index of the first occurrence of p in s, 0 when there is none
RECURSIVE FindFrom(_, _, _)
FindFrom(s, p, i) == IF i + Len(p) - 1 > Len(s) THEN 0
                     ELSE IF SubSeq(s, i, i + Len(p) - 1) = p THEN i
                     ELSE FindFrom(s, p, i + 1)

Find(s, p) == FindFrom(s, p, 1)

\* p in s
Contains(s, p) == Find(s, p) # 0

\* str.split(p): always at least one piece
RECURSIVE Split(_, _)
Split(s, p) == LET i == Find(s, p)
               IN IF i = 0 THEN <<s>>
                  ELSE <<SubSeq(s, 1, i - 1)>> \o Split(SubSeq(s, i + Len(p), Len(s)), p)

\* str.split(p, 1): at most two pieces, cut at the first occurrence
SplitOnce(s, p) == LET i == Find(s, p)
                   IN IF i = 0 THEN <<s>>
                      ELSE <<SubSeq(s, 1, i - 1), SubSeq(s, i + Len(p), Len(s))>>

\* seq[:n]
Take(seq, n) == SubSeq(seq, 1, IF Len(seq) < n THEN Len(seq) ELSE n)

ErrorPrefix == <<"E","r","r","o","r">>

\* str(e) of whatever exception a failed call raised
ExcText == <<"e">>

-----------------------------------------------------------------------------
(* Suggestion Generator *)

SuggestionsError == <<"E","r","r","o","r"," ","g","e","n","e","r","a","t","i","n","g"," ",
                      "s","u","g","g","e","s","t","i","o","n","s",".">>

\* LineSuggestion, were parts[1] appended without .strip().
LineSuggestion_Unstripped(line) ==
    LET line_strip == Strip(line)
    IN IF line_strip # <<>> /\ IsDigit(line_strip[1]) /\ Contains(line_strip, <<".", " ">>)
       THEN LET parts == SplitOnce(line_strip, <<".", " ">>)
            IN IF Len(parts) = 2 /\ Strip(parts[2]) # <<>>
               THEN <<parts[2]>>
               ELSE <<>>
       ELSE <<>>

\* One pass of the loop over lines: the suggestion a line contributes, if any.
LineSuggestion(line) ==
    LET line_strip == Strip(line)
    IN IF line_strip # <<>> /\ IsDigit(line_strip[1]) /\ Contains(line_strip, <<".", " ">>)
       THEN LET parts == SplitOnce(line_strip, <<".", " ">>)
            IN IF Len(parts) = 2 /\ Strip(parts[2]) # <<>>
               THEN <<Strip(parts[2])>>
               ELSE <<>>
       ELSE <<>>

RECURSIVE NumberedSuggestions(_)
NumberedSuggestions(lines) ==
    IF lines = <<>> THEN <<>>
    ELSE LineSuggestion(Head(lines)) \o NumberedSuggestions(Tail(lines))

RECURSIVE NonEmptyLines(_)
NonEmptyLines(lines) ==
    IF lines = <<>> THEN <<>>
    ELSE (IF Strip(Head(lines)) # <<>> THEN <<Strip(Head(lines))>> ELSE <<>>)
         \o NonEmptyLines(Tail(lines))

\* ParseSuggestions, were the final [:3] missing.
ParseSuggestions_Uncut(suggestions_text) ==
    LET lines == Split(Strip(suggestions_text), <<"\n">>)
        numbered == NumberedSuggestions(lines)
    IN IF numbered = <<>> /\ Len(lines) >= 1
       THEN Take(NonEmptyLines(lines), 3)
       ELSE numbered

\* The parse of a completion's text (the body of the try block).
ParseSuggestions(suggestions_text) ==
    LET lines == Split(Strip(suggestions_text), <<"\n">>)
        numbered == NumberedSuggestions(lines)
        found == IF numbered = <<>> /\ Len(lines) >= 1
                 THEN Take(NonEmptyLines(lines), 3)
                 ELSE numbered
    IN Take(found, 3)

\* SkipSuggestions, were the test for an error message missing.
SkipSuggestions_EmptyOnly(message) == message = <<>>

\* The guard that returns [] before any call is made.
SkipSuggestions(message) == message = <<>> \/ StartsWith(message, ErrorPrefix)

\* generate_suggested_responses: its value and the calls it issued, given the
\* outcome of the completion call it would make.
generate_suggested_responses(message, outcome) ==
    IF SkipSuggestions(message)
    THEN [value |-> <<>>, calls |-> <<>>]
    ELSE [value |-> IF outcome.ok THEN ParseSuggestions(outcome.text) ELSE <<SuggestionsError>>,
          calls |-> <<[fn |-> "generate_suggested_responses", ok |-> outcome.ok]>>]

-----------------------------------------------------------------------------
(* Completion Client and Speech Bridge *)

\* The system prompt, abbreviated.
SYSTEM_PROMPT == <<"S","Y","S">>

\* HistoryMessages, were the assistant's message appended before the user's.
RECURSIVE HistoryMessages_Swapped(_)
HistoryMessages_Swapped(history) ==
    IF history = <<>> THEN <<>>
    ELSE LET human == Head(history)[1]
             ai == Head(history)[2]
         IN (IF ai # <<>> THEN <<[role |-> "assistant", content |-> ai]>> ELSE <<>>)
            \o (IF human # <<>> THEN <<[role |-> "user", content |-> human]>> ELSE <<>>)
            \o HistoryMessages_Swapped(Tail(history))

\* The loop of ai_tutor over history: empty texts are skipped.
RECURSIVE HistoryMessages(_)
HistoryMessages(history) ==
    IF history = <<>> THEN <<>>
    ELSE LET human == Head(history)[1]
             ai == Head(history)[2]
         IN (IF human # <<>> THEN <<[role |-> "user", content |-> human]>> ELSE <<>>)
            \o (IF ai # <<>> THEN <<[role |-> "assistant", content |-> ai]>> ELSE <<>>)
            \o HistoryMessages(Tail(history))

\* The message list ai_tutor sends.
TutorMessages(user_input, history) ==
    <<[role |-> "system", content |-> SYSTEM_PROMPT]>>
    \o HistoryMessages(history)
    \o <<[role |-> "user", content |-> user_input]>>

CompletionErrorTail == <<"\n","\n","P","l","e","a","s","e"," ","c","h","e","c","k"," ","y","o",
        "u","r"," ","A","P","I"," ","k","e","y","/","q","u","o","t","a"," ","a","n","d"," ",
        "c","o","n","n","e","c","t","i","o","n",".">>

\* ai_tutor: the reply, or the "Error: ..." text when the call raised.
ai_tutor(user_input, history, outcome) ==
    [value |-> IF outcome.ok THEN outcome.text
               ELSE ErrorPrefix \o <<":", " ">> \o ExcText \o CompletionErrorTail,
     calls |-> <<[fn |-> "ai_tutor", ok |-> outcome.ok,
                  messages |-> TutorMessages(user_input, history)]>>]

TranscribeErrorHead == <<"E","r","r","o","r"," ","t","r","a","n","s","c","r","i","b","i","n",
        "g"," ","a","u","d","i","o",":"," ">>

\* transcribe_audio: "" without a call when there is no audio.
transcribe_audio(audio_filepath, outcome) ==
    IF audio_filepath = None
    THEN [value |-> <<>>, calls |-> <<>>]
    ELSE LET text == IF outcome.ok THEN outcome.text ELSE TranscribeErrorHead \o ExcText
         IN [value |-> text,
             calls |-> <<[fn |-> "transcribe_audio", ok |-> outcome.ok, text |-> text]>>]

\* generate_speech: the path of the synthesized file, or None when the call raised.
generate_speech(text, outcome) ==
    [value |-> IF outcome.ok THEN "speech.mp3" ELSE None,
     calls |-> <<[fn |-> "generate_speech", ok |-> outcome.ok]>>]

-----------------------------------------------------------------------------
(* Study Guide Compiler *)

NoHistoryText == <<"N","o"," ","c","o","n","v","e","r","s","a","t","i","o","n"," ","h","i","s",
        "t","o","r","y"," ","t","o"," ","c","r","e","a","t","e"," ","a"," ","s","t","u","d",
        "y"," ","g","u","i","d","e"," ","f","r","o","m",".">>

GuideHeading == <<"#"," ","S","t","u","d","y"," ","G","u","i","d","e",":"," ","T","u","t","o",
        "r","i","n","g"," ","S","e","s","s","i","o","n","\n","\n">>

GuideErrorHead == <<"E","r","r","o","r"," ","g","e","n","e","r","a","t","i","n","g"," ","s",
        "t","u","d","y"," ","g","u","i","d","e",":"," ">>

\* generate_study_guide_content
generate_study_guide_content(chat_history, outcome) ==
    IF chat_history = <<>>
    THEN [value |-> NoHistoryText, calls |-> <<>>]
    ELSE [value |-> IF outcome.ok
                    THEN IF ~StartsWith(Strip(outcome.text), <<"#">>)
                         THEN GuideHeading \o outcome.text
                         ELSE outcome.text
                    ELSE GuideErrorHead \o ExcText,
          calls |-> <<[fn |-> "generate_study_guide_content", ok |-> outcome.ok]>>]

SkipMarker == <<"[","S","k","i","p","p","e","d"," ","l","i","n","e"," ","d","u","e"," ","t",
        "o"," ","p","r","o","c","e","s","s","i","n","g"," ","e","r","r","o","r","]">>

\* The one character U+2022 drawn before a list item.
Bullet == <<"(bullet)">>

\* str.isdigit
IsDigits(s) == s # <<>> /\ \A i \in 1..Len(s) : IsDigit(s[i])

\* s[n:]
From(s, n) == SubSeq(s, n + 1, Len(s))

\* A call on the FPDF object that leaves something on the page: ln(h) and set_x(x)
\* with their argument as size, cell and multi_cell with the font set before them.
PdfOp(op, style, size, txt) == [op |-> op, style |-> style, size |-> size, txt |-> txt]

IsTextOp(item) == item.op \in {"cell", "multi_cell"}

\* The calls the branch taken for a line makes when none of them raises
\* (line_height is 6).
LineOps(line) ==
    LET line_strip == Strip(line)
        parts == SplitOnce(line_strip, <<".", " ">>)
    IN IF StartsWith(line, <<"#", " ">>)
       THEN <<PdfOp("ln", "", 6, <<>>),
              PdfOp("multi_cell", "B", 16, From(line_strip, 2)),
              PdfOp("ln", "", 3, <<>>)>>
       ELSE IF StartsWith(line, <<"#", "#", " ">>)
       THEN <<PdfOp("ln", "", 3, <<>>),
              PdfOp("multi_cell", "B", 14, From(line_strip, 3)),
              PdfOp("ln", "", 3, <<>>)>>
       ELSE IF StartsWith(line, <<"#", "#", "#", " ">>)
       THEN <<PdfOp("ln", "", 3, <<>>),
              PdfOp("multi_cell", "BI", 12, From(line_strip, 4)),
              PdfOp("ln", "", 3, <<>>)>>
       ELSE IF StartsWith(line_strip, <<"-", " ">>) \/ StartsWith(line_strip, <<"*", " ">>)
       THEN <<PdfOp("set_x", "", 15, <<>>),
              PdfOp("cell", "", 12, Bullet),
              PdfOp("multi_cell", "", 12, From(line_strip, 2)),
              PdfOp("set_x", "", 10, <<>>)>>
       ELSE IF line_strip # <<>> /\ IsDigit(line_strip[1])
               /\ Contains(line_strip, <<".", " ">>)
       THEN IF Len(parts) = 2 /\ IsDigits(parts[1])
            THEN <<PdfOp("set_x", "", 15, <<>>),
                   PdfOp("cell", "", 12, parts[1] \o <<".">>),
                   PdfOp("multi_cell", "", 12, parts[2]),
                   PdfOp("set_x", "", 10, <<>>)>>
            ELSE <<PdfOp("multi_cell", "", 12, line)>>
       ELSE IF line_strip # <<>>
       THEN <<PdfOp("multi_cell", "", 12, line)>>
       ELSE <<PdfOp("ln", "", 3, <<>>)>>

\* The text-drawing calls of a line, by their positions among its calls.
TextOps(line) == LET ops == LineOps(line) IN {k \in DOMAIN ops : IsTextOp(ops[k])}

\* The placeholder of the except branch, in red italics.
SkipOp == PdfOp("multi_cell", "I", 8, SkipMarker)

\* RenderLine, were the except branch to leave no placeholder.
RenderLine_Silent(line, fault) ==
    LET ops == LineOps(line)
        texts == TextOps(line)
    IN IF fault = 0 \/ fault > Cardinality(texts)
       THEN ops
       ELSE LET raising == CHOOSE k \in texts : Cardinality({j \in texts : j <= k}) = fault
            IN SubSeq(ops, 1, raising - 1)

\* One pass of the loop over lines. The line's fault is the text-drawing call that
\* raises (its fault-th; 0: none): the calls before it stay on the page and the
\* except branch draws the placeholder, whose plain text in a core font draws.
RenderLine(line, fault) ==
    LET ops == LineOps(line)
        texts == TextOps(line)
    IN IF fault = 0 \/ fault > Cardinality(texts)
       THEN ops
       ELSE LET raising == CHOOSE k \in texts : Cardinality({j \in texts : j <= k}) = fault
            IN SubSeq(ops, 1, raising - 1) \o <<SkipOp>>

\* The fault of line i: lines the outcome says nothing about draw.
FaultAt(faults, i) == IF i \in DOMAIN faults THEN faults[i] ELSE 0

RECURSIVE RenderLines(_, _, _)
RenderLines(lines, faults, i) ==
    IF i > Len(lines) THEN <<>>
    ELSE RenderLine(lines[i], FaultAt(faults, i)) \o RenderLines(lines, faults, i + 1)

\* The page create_pdf draws: the loop over the lines of the text.
PdfPage(study_guide_text, faults) ==
    RenderLines(Split(Strip(study_guide_text), <<"\n">>), faults, 1)

\* create_pdf: None when FPDF is missing or a call outside the loop's try raised
\* (outcome.ok is false), else the file holding the page.
create_pdf(study_guide_text, outcome) ==
    [value |-> IF outcome.ok THEN "guide.pdf" ELSE None,
     calls |-> <<[fn |-> "create_pdf", ok |-> outcome.ok]>>]

\* create_text_file: None when writing raised, else the file.
create_text_file(study_guide_text, outcome) ==
    [value |-> IF outcome.ok THEN "guide.txt" ELSE None,
     calls |-> <<[fn |-> "create_text_file", ok |-> outcome.ok]>>]

\* save_study_guide, were there no fallback to a text file.
save_study_guide_PdfOnly(study_guide_text, pdfOutcome, textOutcome) ==
    LET pdf == create_pdf(study_guide_text, pdfOutcome)
    IN IF pdf.value # None
       THEN [path |-> pdf.value, status |-> "Study guide created as PDF!", calls |-> pdf.calls]
       ELSE [path |-> None, status |-> "Error creating study guide file (PDF/Text).",
             calls |-> pdf.calls]

\* save_study_guide: PDF first, text as the fallback.
save_study_guide(study_guide_text, pdfOutcome, textOutcome) ==
    LET pdf == create_pdf(study_guide_text, pdfOutcome)
        text == create_text_file(study_guide_text, textOutcome)
    IN IF pdf.value # None
       THEN [path |-> pdf.value, status |-> "Study guide created as PDF!", calls |-> pdf.calls]
       ELSE IF text.value # None
            THEN [path |-> text.value, status |-> "Study guide created as Text (PDF failed).",
                  calls |-> pdf.calls \o text.calls]
            ELSE [path |-> None, status |-> "Error creating study guide file (PDF/Text).",
                  calls |-> pdf.calls \o text.calls]

\* A Markdown value is the sequence of the pieces its f-string joins.
PleaseConverse == <<"*Please have a conversation first.*">>

\* The body of the try block of create_and_download_study_guide.
ExportGuide(chat_history, o) ==
    LET content == generate_study_guide_content(chat_history, o.guide)
        saved == save_study_guide(content.value, o.pdf, o.text)
    IN IF StartsWith(content.value, ErrorPrefix)
       THEN [file |-> [value |-> None, visible |-> FALSE],
             status |-> <<"*Error generating content: ", content.value, "*">>,
             calls |-> content.calls]
       ELSE IF saved.path # None
            THEN [file |-> [value |-> saved.path, visible |-> TRUE],
                  status |-> <<"*", saved.status, "*">>,
                  calls |-> content.calls \o saved.calls]
            ELSE [file |-> [value |-> None, visible |-> FALSE],
                  status |-> <<"*Error: ", saved.status, "*">>,
                  calls |-> content.calls \o saved.calls]

\* create_and_download_study_guide, were the test for an empty history missing.
create_and_download_study_guide_Unguarded(chat_history, o) == ExportGuide(chat_history, o)

\* create_and_download_study_guide: the File update, the Markdown update, the calls issued.
create_and_download_study_guide(chat_history, o) ==
    IF chat_history = <<>>
    THEN [file |-> [value |-> None, visible |-> FALSE], status |-> PleaseConverse,
          calls |-> <<>>]
    ELSE ExportGuide(chat_history, o)

-----------------------------------------------------------------------------
(* Interaction Controller: the handlers as functions of their inputs *)

\* use_suggestion
use_suggestion(suggestion) == suggestion

\* update_suggestions, were a suggestion shown whatever its text.
update_suggestions_Unfiltered(list) ==
    [i \in 1..3 |->
        IF i <= Len(list)
        THEN [visible |-> TRUE, value |-> list[i]]
        ELSE [visible |-> FALSE]]

\* update_suggestions: one update per button; a hidden button's update carries no value.
update_suggestions(list) ==
    [i \in 1..3 |->
        IF i <= Len(list) /\ list[i] # <<>> /\ ~StartsWith(list[i], ErrorPrefix)
        THEN [visible |-> TRUE, value |-> list[i]]
        ELSE [visible |-> FALSE]]

AudioInputText == <<"(","A","u","d","i","o"," ","i","n","p","u","t",")">>

AudioEmptyText == <<"A","u","d","i","o"," ","c","o","u","l","d"," ","n","o","t"," ","b","e"," ",
        "t","r","a","n","s","c","r","i","b","e","d"," ","o","r"," ","w","a","s"," ",
        "e","m","p","t","y",".">>

\* Respond, were the history replaced by the new turn instead of extended by it.
Respond_Overwrites(user_text, chat_history, voice_enabled, o) ==
    LET bot == ai_tutor(user_text, chat_history, o.tutor)
        speak == voice_enabled /\ ~StartsWith(bot.value, ErrorPrefix)
        speech == generate_speech(bot.value, o.speech)
        sugg == generate_suggested_responses(bot.value, o.suggest)
    IN [chatbot |-> <<(<<user_text, bot.value>>)>>,
        audio_output |-> IF speak THEN speech.value ELSE None,
        updates |-> update_suggestions(sugg.value),
        calls |-> bot.calls \o (IF speak THEN speech.calls ELSE <<>>) \o sugg.calls]

\* Steps 1-5 shared by the two submit handlers once the user's text is known:
\* reply, history, speech, suggestions.
Respond(user_text, chat_history, voice_enabled, o) ==
    LET bot == ai_tutor(user_text, chat_history, o.tutor)
        speak == voice_enabled /\ ~StartsWith(bot.value, ErrorPrefix)
        speech == generate_speech(bot.value, o.speech)
        sugg == generate_suggested_responses(bot.value, o.suggest)
    IN [chatbot |-> Append(chat_history, <<user_text, bot.value>>),
        audio_output |-> IF speak THEN speech.value ELSE None,
        updates |-> update_suggestions(sugg.value),
        calls |-> bot.calls \o (IF speak THEN speech.calls ELSE <<>>) \o sugg.calls]

\* process_text_and_update
process_text_and_update(message, chat_history, voice_enabled, o) ==
    IF Strip(message) = <<>>
    THEN [msg |-> <<>>, chatbot |-> chat_history, audio_output |-> None,
          updates |-> update_suggestions(<<>>), calls |-> <<>>]
    ELSE [msg |-> <<>>] @@ Respond(message, chat_history, voice_enabled, o)

\* process_audio_and_update, were the test for a missing recording missing.
process_audio_and_update_Unguarded(audio_filepath, chat_history, voice_enabled, o) ==
    LET heard == transcribe_audio(audio_filepath, o.transcribe)
        user_text == heard.value
        rest == Respond(user_text, chat_history, voice_enabled, o)
    IN IF user_text = <<>> \/ StartsWith(user_text, ErrorPrefix)
       THEN [chatbot |-> Append(chat_history,
                                <<AudioInputText,
                                  IF user_text # <<>> THEN user_text ELSE AudioEmptyText>>),
             audio_output |-> None,
             updates |-> update_suggestions(<<>>),
             calls |-> heard.calls]
       ELSE [rest EXCEPT !.calls = heard.calls \o rest.calls]

\* process_audio_and_update
process_audio_and_update(audio_filepath, chat_history, voice_enabled, o) ==
    LET heard == transcribe_audio(audio_filepath, o.transcribe)
        user_text == heard.value
        rest == Respond(user_text, chat_history, voice_enabled, o)
    IN IF audio_filepath = None
       THEN [chatbot |-> chat_history, audio_output |-> None,
             updates |-> update_suggestions(<<>>), calls |-> <<>>]
       ELSE IF user_text = <<>> \/ StartsWith(user_text, ErrorPrefix)
            THEN [chatbot |-> Append(chat_history,
                                     <<AudioInputText,
                                       IF user_text # <<>> THEN user_text ELSE AudioEmptyText>>),
                  audio_output |-> None,
                  updates |-> update_suggestions(<<>>),
                  calls |-> heard.calls]
            ELSE [rest EXCEPT !.calls = heard.calls \o rest.calls]

\* clear_chat: the eight values it returns.
clear_chat ==
    [chatbot |-> <<>>, audio_output |-> None, msg |-> <<>>,
     updates |-> [i \in 1..3 |-> [visible |-> FALSE]],
     file |-> [value |-> None, visible |-> FALSE],
     status |-> <<>>]

-----------------------------------------------------------------------------
(* Outcomes of the hosted calls and of the renderers *)

Ok(text) == [ok |-> TRUE, text |-> text]

Failed == [ok |-> FALSE]

\* chat completion for ai_tutor: a reply, an empty reply, an exception
TutorOutcomes == {Ok(<<"b">>), Ok(<<>>), Failed}

\* speech synthesis
SpeechOutcomes == {[ok |-> TRUE], Failed}

\* chat completion for the suggestions: a numbered list, nothing, an exception
SuggestOutcomes == {Ok(<<"1", ".", " ", "a">>), Ok(<<>>), Failed}

\* transcription: the words heard, silence, an exception
TranscribeOutcomes == {Ok(<<"a">>), Ok(<<>>), Failed}

\* chat completion for the study guide: with its heading, without it, an exception
GuideOutcomes == {Ok(<<"#", " ", "T">>), Ok(<<"T">>), Failed}

\* create_pdf and create_text_file
RenderOutcomes == {[ok |-> TRUE], Failed}

TextOutcomes == [tutor : TutorOutcomes, speech : SpeechOutcomes, suggest : SuggestOutcomes]

AudioOutcomes ==
    [transcribe : TranscribeOutcomes, tutor : TutorOutcomes, speech : SpeechOutcomes,
     suggest : SuggestOutcomes]

ExportOutcomes == [guide : GuideOutcomes, pdf : RenderOutcomes, text : RenderOutcomes]

\* What the user types into the textbox: blanks or a question.
TypedTexts == {<<" ">>, <<"a">>}

\* What the microphone component holds: nothing or a recording.
AudioInputs == {None, "clip.wav"}

-----------------------------------------------------------------------------
(* Interface state and event listeners *)

Idle == [fn |-> "idle"]

ButtonLabel(i) == <<"S","u","g","g","e","s","t","i","o","n"," ">> \o <<<<"1", "2", "3">>[i]>>

\* The Blocks layout: the components' values as constructed.
UiInit ==
    /\ chatbot = <<>>
    /\ msg = <<>>
    /\ voice_toggle = TRUE
    /\ audio_output = None
    /\ buttons = [i \in 1..3 |-> [value |-> ButtonLabel(i), visible |-> FALSE]]
    /\ study_guide_download = [value |-> None, visible |-> FALSE]
    /\ study_guide_output = <<>>
    /\ inflight = Idle
    /\ hist = [last |-> "none", overlap |-> FALSE, since |-> "submit"]

\* The compiler specification's variables before anything is compiled.
NotCompiled ==
    /\ guide_text = [returned |-> FALSE, value |-> <<>>]
    /\ render_outcome = Failed
    /\ rendered = [returned |-> FALSE, value |-> None, pages |-> <<>>]

Init ==
    /\ UiInit
    /\ calls = <<>>
    /\ tutor_message = <<>>
    /\ completion = Failed
    /\ suggestions = [returned |-> FALSE, value |-> <<>>]
    /\ guide_completion = Failed
    /\ NotCompiled

\* A button after an update: an update without a value leaves the value as it was.
ApplyUpdate(button, update) ==
    IF update.visible
    THEN [value |-> update.value, visible |-> TRUE]
    ELSE [button EXCEPT !.visible = FALSE]

ApplyUpdates(updates) == [i \in 1..3 |-> ApplyUpdate(buttons[i], updates[i])]

\* A listener registered with the default queue setting takes the queue's one slot.
Queued(fn) == inflight = Idle

\* clear_btn.click is registered with queue=False: it runs at once, whatever is running.
Unqueued(fn) == TRUE

\* What a handler's start leaves in hist: the handler started last, whether another
\* handler was running when it started, and what has been started since the last
\* clear ("clear": nothing but suggestion clicks; "guide": study-guide requests and
\* no submit; "submit": a submit, or there was no clear yet).
Started(fn) ==
    [last |-> fn,
     overlap |-> inflight # Idle,
     since |-> CASE fn = "clear_chat" -> "clear"
               [] fn \in {"process_text_and_update", "process_audio_and_update"} -> "submit"
               [] fn = "create_and_download_study_guide" ->
                    IF hist.since \in {"clear", "guide"} THEN "guide" ELSE hist.since
               [] OTHER -> hist.since]

\* The user edits the textbox.
EditMsg ==
    /\ \E m \in TypedTexts : msg' = m
    /\ UNCHANGED <<chatbot, voice_toggle, audio_output, buttons, study_guide_download,
                   study_guide_output, inflight, calls, hist, parserVars, compilerVars>>

\* The user flips the voice-output checkbox.
ToggleVoice ==
    /\ voice_toggle' = ~voice_toggle
    /\ UNCHANGED <<chatbot, msg, audio_output, buttons, study_guide_download,
                   study_guide_output, inflight, calls, hist, parserVars, compilerVars>>

\* msg.submit / submit_btn.click: the handler starts on the inputs' current values.
SubmitText ==
    /\ Queued("process_text_and_update")
    /\ Strip(msg) = <<>> \/ Len(chatbot) < MaxTurns
    /\ inflight' = [fn |-> "process_text_and_update", message |-> msg,
                    chat_history |-> chatbot, voice_enabled |-> voice_toggle]
    /\ hist' = Started("process_text_and_update")
    /\ calls' = <<>>
    /\ UNCHANGED <<chatbot, msg, voice_toggle, audio_output, buttons, study_guide_download,
                   study_guide_output, parserVars, compilerVars>>

\* process_text_and_update returns: its values are written to the outputs.
ReturnText ==
    /\ inflight.fn = "process_text_and_update"
    /\ \E o \in TextOutcomes :
          LET r == process_text_and_update(inflight.message, inflight.chat_history,
                                           inflight.voice_enabled, o)
          IN /\ msg' = r.msg
             /\ chatbot' = r.chatbot
             /\ audio_output' = r.audio_output
             /\ buttons' = ApplyUpdates(r.updates)
             /\ calls' = r.calls
    /\ inflight' = Idle
    /\ UNCHANGED <<voice_toggle, study_guide_download, study_guide_output, hist, parserVars,
                   compilerVars>>

\* audio_input.change
SubmitAudio ==
    /\ Queued("process_audio_and_update")
    /\ Len(chatbot) < MaxTurns
    /\ \E audio \in AudioInputs :
          inflight' = [fn |-> "process_audio_and_update", audio_filepath |-> audio,
                       chat_history |-> chatbot, voice_enabled |-> voice_toggle]
    /\ hist' = Started("process_audio_and_update")
    /\ calls' = <<>>
    /\ UNCHANGED <<chatbot, msg, voice_toggle, audio_output, buttons, study_guide_download,
                   study_guide_output, parserVars, compilerVars>>

\* process_audio_and_update returns.
ReturnAudio ==
    /\ inflight.fn = "process_audio_and_update"
    /\ \E o \in AudioOutcomes :
          LET r == process_audio_and_update(inflight.audio_filepath, inflight.chat_history,
                                            inflight.voice_enabled, o)
          IN /\ chatbot' = r.chatbot
             /\ audio_output' = r.audio_output
             /\ buttons' = ApplyUpdates(r.updates)
             /\ calls' = r.calls
    /\ inflight' = Idle
    /\ UNCHANGED <<msg, voice_toggle, study_guide_download, study_guide_output, hist,
                   parserVars, compilerVars>>

\* suggestion1/2/3.click: only a visible button can be clicked.
ClickSuggestion ==
    /\ Queued("use_suggestion")
    /\ \E i \in 1..3 :
          /\ buttons[i].visible
          /\ inflight' = [fn |-> "use_suggestion", suggestion |-> buttons[i].value]
    /\ hist' = Started("use_suggestion")
    /\ calls' = <<>>
    /\ UNCHANGED <<chatbot, msg, voice_toggle, audio_output, buttons, study_guide_download,
                   study_guide_output, parserVars, compilerVars>>

\* use_suggestion returns.
ReturnSuggestion ==
    /\ inflight.fn = "use_suggestion"
    /\ msg' = use_suggestion(inflight.suggestion)
    /\ calls' = <<>>
    /\ inflight' = Idle
    /\ UNCHANGED <<chatbot, voice_toggle, audio_output, buttons, study_guide_download,
                   study_guide_output, hist, parserVars, compilerVars>>

\* study_guide_btn.click
RequestStudyGuide ==
    /\ Queued("create_and_download_study_guide")
    /\ inflight' = [fn |-> "create_and_download_study_guide", chat_history |-> chatbot]
    /\ hist' = Started("create_and_download_study_guide")
    /\ calls' = <<>>
    /\ UNCHANGED <<chatbot, msg, voice_toggle, audio_output, buttons, study_guide_download,
                   study_guide_output, parserVars, compilerVars>>

\* create_and_download_study_guide returns.
ReturnStudyGuide ==
    /\ inflight.fn = "create_and_download_study_guide"
    /\ \E o \in ExportOutcomes :
          LET r == create_and_download_study_guide(inflight.chat_history, o)
          IN /\ study_guide_download' = r.file
             /\ study_guide_output' = r.status
             /\ calls' = r.calls
    /\ inflight' = Idle
    /\ UNCHANGED <<chatbot, msg, voice_toggle, audio_output, buttons, hist, parserVars,
                   compilerVars>>

\* clear_btn.click: clear_chat makes no hosted call, so it starts and returns in one step.
ClearSession ==
    /\ Unqueued("clear_chat")
    /\ chatbot' = clear_chat.chatbot
    /\ audio_output' = clear_chat.audio_output
    /\ msg' = clear_chat.msg
    /\ buttons' = ApplyUpdates(clear_chat.updates)
    /\ study_guide_download' = clear_chat.file
    /\ study_guide_output' = clear_chat.status
    /\ calls' = <<>>
    /\ hist' = Started("clear_chat")
    /\ UNCHANGED <<voice_toggle, inflight, parserVars, compilerVars>>

Next ==
    \/ EditMsg
    \/ ToggleVoice
    \/ SubmitText
    \/ ReturnText
    \/ SubmitAudio
    \/ ReturnAudio
    \/ ClickSuggestion
    \/ ReturnSuggestion
    \/ RequestStudyGuide
    \/ ReturnStudyGuide
    \/ ClearSession

Spec == Init /\ [][Next]_vars

\* The events of a session in which the user never clears the chat.
NextNoClear ==
    \/ EditMsg
    \/ ToggleVoice
    \/ SubmitText
    \/ ReturnText
    \/ SubmitAudio
    \/ ReturnAudio
    \/ ClickSuggestion
    \/ ReturnSuggestion
    \/ RequestStudyGuide
    \/ ReturnStudyGuide

SpecNoClear == Init /\ [][NextNoClear]_vars

-----------------------------------------------------------------------------
(* The handlers invoked one after another, each running to completion *)

\* The components the handlers write to.
Ui ==
    [chatbot |-> chatbot, msg |-> msg, audio_output |-> audio_output, buttons |-> buttons,
     file |-> study_guide_download, status |-> study_guide_output]

\* The components ui after the values r of a handler are written to its outputs.
Written(ui, r) ==
    [c \in DOMAIN ui |->
        IF c = "buttons"
        THEN IF "updates" \in DOMAIN r
             THEN [i \in 1..3 |-> ApplyUpdate(ui.buttons[i], r.updates[i])]
             ELSE ui.buttons
        ELSE IF c \in DOMAIN r THEN r[c] ELSE ui[c]]

\* One invocation of each handler on the components ui, with the toggle as it is.
\* A file value names the artifact's format; the temporary file behind it is
\* created anew by every invocation.
TextOn(ui, message, o) ==
    Written(ui, process_text_and_update(message, ui.chatbot, voice_toggle, o))

AudioOn(ui, audio_filepath, o) ==
    Written(ui, process_audio_and_update(audio_filepath, ui.chatbot, voice_toggle, o))

ClickOn(ui, suggestion) == Written(ui, [msg |-> use_suggestion(suggestion)])

GuideOn(ui, o) == Written(ui, create_and_download_study_guide(ui.chatbot, o))

ClearOn(ui) == Written(ui, clear_chat)

\* The interface shows the components ui. The observations calls and hist are
\* not kept here.
Shows(ui) ==
    /\ chatbot' = ui.chatbot
    /\ msg' = ui.msg
    /\ audio_output' = ui.audio_output
    /\ buttons' = ui.buttons
    /\ study_guide_download' = ui.file
    /\ study_guide_output' = ui.status
    /\ UNCHANGED <<voice_toggle, inflight, calls, hist, parserVars, compilerVars>>

InvokeText ==
    /\ Strip(msg) = <<>> \/ Len(chatbot) < MaxTurns
    /\ \E o \in TextOutcomes : Shows(TextOn(Ui, msg, o))

InvokeAudio ==
    /\ Len(chatbot) < MaxTurns
    /\ \E audio \in AudioInputs, o \in AudioOutcomes : Shows(AudioOn(Ui, audio, o))

InvokeSuggestion ==
    \E i \in 1..3 : buttons[i].visible /\ Shows(ClickOn(Ui, buttons[i].value))

InvokeStudyGuide == \E o \in ExportOutcomes : Shows(GuideOn(Ui, o))

InvokeClear == Shows(ClearOn(Ui))

SerialNext ==
    \/ EditMsg
    \/ ToggleVoice
    \/ InvokeText
    \/ InvokeAudio
    \/ InvokeSuggestion
    \/ InvokeStudyGuide
    \/ InvokeClear

SerialSpec == Init /\ [][SerialNext]_vars

-----------------------------------------------------------------------------
(* The suggestion parser on enumerated inputs *)

\* The characters a line of a model response is made of.
LineAlphabet == {"1", ".", " ", "a"}

\* Every line of at most n characters.
Lines(n) == UNION {[1..k -> LineAlphabet] : k \in 0..n}

NumberedExample == <<"1","."," ","a","\n","2","."," ","b","\n","3","."," ","c">>

\* The lines an enumerated line is put next to: none, one numbered line, three
\* numbered lines, three plain lines.
Anchors ==
    {<<>>,
     <<"1", ".", " ", "b">>,
     <<"1", ".", " ", "b", "\n", "2", ".", " ", "c", "\n", "3", ".", " ", "d">>,
     <<"b", "\n", "c", "\n", "d">>}

Join(first, second) == first \o <<"\n">> \o second

\* The model responses: the example, and every line alone, after and before an anchor.
Responses ==
    {NumberedExample}
    \cup {Join(anchor, line) : anchor \in Anchors, line \in Lines(MaxLineLen)}
    \cup {Join(line, anchor) : anchor \in Anchors \ {<<>>}, line \in Lines(MaxLineLen)}

\* The tutor messages suggestions are asked for: none, two error texts, a reply,
\* a reply that merely mentions an error.
ParserMessages ==
    {<<>>, ErrorPrefix, <<"E","r","r","o","r",":"," ","t","i","m","e","o","u","t">>,
     <<"b">>, <<"n", "o", " ">> \o ErrorPrefix}

ParserInit ==
    /\ UiInit
    /\ calls = <<>>
    /\ suggestions = [returned |-> FALSE, value |-> <<>>]
    /\ \/ /\ tutor_message \in ParserMessages
          /\ completion \in {Failed, Ok(NumberedExample)}
       \/ /\ tutor_message = <<"b">>
          /\ completion \in {Ok(text) : text \in Responses}
    /\ guide_completion = Failed
    /\ NotCompiled

\* generate_suggested_responses is called and returns.
Suggest ==
    /\ ~suggestions.returned
    /\ LET r == generate_suggested_responses(tutor_message, completion)
       IN /\ suggestions' = [returned |-> TRUE, value |-> r.value]
          /\ calls' = r.calls
    /\ UNCHANGED <<uiVars, tutor_message, completion, compilerVars>>

ParserNext == Suggest

ParserSpec == ParserInit /\ [][ParserNext]_vars

-----------------------------------------------------------------------------
(* The study guide compiler on enumerated inputs *)

\* The lines a study guide is made of: a title, a topic, a bullet, a numbered
\* item, a paragraph, a blank line.
GuideLineSamples ==
    {<<"#", " ", "A">>, <<"#", "#", " ", "B">>, <<"-", " ", "c">>,
     <<"1", ".", " ", "d">>, <<"e">>, <<>>}

\* "\n".join(lines)
RECURSIVE JoinLines(_)
JoinLines(lines) ==
    IF Len(lines) = 1 THEN lines[1]
    ELSE lines[1] \o <<"\n">> \o JoinLines(Tail(lines))

\* The texts the content-generation completion returns.
GuideTexts ==
    {JoinLines(lines) :
        lines \in UNION {[1..k -> GuideLineSamples] : k \in 1..MaxGuideLines}}

\* The transcript the guide is compiled from.
GuideHistory == <<<<<<"a">>, <<"b">>>>>>

\* The faults the lines of a text can have: for each line, which of its
\* text-drawing calls raises.
LineFaults(text) ==
    LET lines == Split(Strip(text), <<"\n">>)
        most == [i \in DOMAIN lines |-> Cardinality(TextOps(lines[i]))]
    IN {faults \in [DOMAIN lines -> 0..2] : \A i \in DOMAIN lines : faults[i] <= most[i]}

CompilerInit ==
    /\ UiInit
    /\ calls = <<>>
    /\ tutor_message = <<>>
    /\ completion = Failed
    /\ suggestions = [returned |-> FALSE, value |-> <<>>]
    /\ guide_completion \in {Ok(text) : text \in GuideTexts} \cup {Failed}
    /\ NotCompiled

\* generate_study_guide_content is called and returns.
Generate ==
    /\ ~guide_text.returned
    /\ LET r == generate_study_guide_content(GuideHistory, guide_completion)
       IN /\ guide_text' = [returned |-> TRUE, value |-> r.value]
          /\ calls' = r.calls
    /\ UNCHANGED <<uiVars, parserVars, guide_completion, render_outcome, rendered>>

\* create_pdf is called on the generated content, as save_study_guide calls it,
\* and returns.
Render ==
    /\ guide_text.returned
    /\ ~StartsWith(guide_text.value, ErrorPrefix)
    /\ ~rendered.returned
    /\ \E outcome \in {[ok |-> TRUE, faults |-> faults] :
                            faults \in LineFaults(guide_text.value)} \cup {Failed} :
          LET r == create_pdf(guide_text.value, outcome)
          IN /\ render_outcome' = outcome
             /\ rendered' = [returned |-> TRUE, value |-> r.value,
                             pages |-> IF outcome.ok
                                       THEN PdfPage(guide_text.value, outcome.faults)
                                       ELSE <<>>]
             /\ calls' = calls \o r.calls
    /\ UNCHANGED <<uiVars, parserVars, guide_completion, guide_text>>

CompilerNext == Generate \/ Render

CompilerSpec == CompilerInit /\ [][CompilerNext]_vars

-----------------------------------------------------------------------------
(* Properties of the suggestion parser, checked under ParserSpec *)

\* message begins with the five letters of "Error"
IsErrorMessage(message) ==
    /\ Len(message) >= 5
    /\ message[1] = "E" /\ message[2] = "r" /\ message[3] = "r"
    /\ message[4] = "o" /\ message[5] = "r"

\* C7: for an empty tutor message, and for one that begins with "Error",
\* generate_suggested_responses returns the empty sequence and issues no
\* completion call.
C7_NoSuggestionsForBrokenTurn ==
    (suggestions.returned /\ (Len(tutor_message) = 0 \/ IsErrorMessage(tutor_message)))
        => (Len(suggestions.value) = 0 /\ Len(calls) = 0)

\* C7 witness: the call returned for the message "Error: timeout".
C7_Witness ==
    /\ suggestions.returned
    /\ tutor_message = <<"E","r","r","o","r",":"," ","t","i","m","e","o","u","t">>
    /\ suggestions.value = <<>>

\* The lines of a text, by the positions of its newlines.
NewlineAt(text) == {i \in 1..Len(text) : text[i] = "\n"}

LineStarts(text) == {1} \cup {i + 1 : i \in NewlineAt(text)}

LineFrom(text, start) ==
    LET ends == {i \in NewlineAt(text) \cup {Len(text) + 1} : i >= start}
        end == CHOOSE i \in ends : \A j \in ends : i <= j
    IN SubSeq(text, start, end - 1)

LinesOf(text) ==
    LET starts == LineStarts(text)
        nth(k) == CHOOSE p \in starts : Cardinality({q \in starts : q < p}) = k - 1
    IN [k \in 1..Cardinality(starts) |-> LineFrom(text, nth(k))]

\* A text without the blanks around it, by the positions of its first and last non-blank.
Trimmed(text) ==
    LET inked == {i \in 1..Len(text) : text[i] # " " /\ text[i] # "\n"}
    IN IF inked = {} THEN <<>>
       ELSE SubSeq(text, CHOOSE i \in inked : \A j \in inked : i <= j,
                         CHOOSE i \in inked : \A j \in inked : i >= j)

\* The positions of ". " in a text.
MarkerAt(text) == {i \in 1..(Len(text) - 1) : text[i] = "." /\ text[i + 1] = " "}

\* The line starts with a digit, blanks aside, and holds ". " somewhere.
QualifiesLoosely(line) ==
    LET t == Trimmed(line)
    IN Len(t) > 0 /\ IsDigit(t[1]) /\ MarkerAt(t) # {}

\* The trimmed text after the first ". " of the line.
AfterFirstMarker(line) ==
    LET t == Trimmed(line)
        first == CHOOSE i \in MarkerAt(t) : \A j \in MarkerAt(t) : i <= j
    IN Trimmed(SubSeq(t, first + 2, Len(t)))

\* The line starts, blanks aside, with a digit immediately followed by ". ".
QualifiesStrictly(line) ==
    LET t == Trimmed(line)
    IN Len(t) >= 3 /\ IsDigit(t[1]) /\ t[2] = "." /\ t[3] = " "

\* The trimmed text after the marker that follows the digit.
AfterLeadingMarker(line) ==
    LET t == Trimmed(line)
    IN Trimmed(SubSeq(t, 4, Len(t)))

FirstThree(seq) == [k \in 1..(IF Len(seq) < 3 THEN Len(seq) ELSE 3) |-> seq[k]]

\* The completion call was made and succeeded.
Parsed == suggestions.returned /\ Len(calls) > 0 /\ completion.ok

\* C8 as amended: when some line of the response qualifies, the result is, in
\* response order and cut to three, the trimmed text after the first ". " of each
\* qualifying line, where a line qualifies iff, once trimmed, it starts with a
\* digit and contains ". " anywhere; "1. a\n2. b\n3. c" yields <<a, b, c>>.
C8_NumberedLinesParsed ==
    Parsed =>
        LET qualifying == SelectSeq(LinesOf(completion.text), QualifiesLoosely)
        IN /\ Len(qualifying) > 0 =>
                suggestions.value =
                    FirstThree([k \in 1..Len(qualifying) |-> AfterFirstMarker(qualifying[k])])
           /\ completion.text = NumberedExample =>
                suggestions.value = <<(<<"a">>), (<<"b">>), (<<"c">>)>>

\* C8 witness: a response whose second line has its ". " away from the digit, parsed.
C8_Witness ==
    /\ Parsed
    /\ completion.text = <<"1", ".", " ", "b", "\n", "1", "a", ".", " ", "a">>
    /\ suggestions.value = <<(<<"b">>), (<<"a">>)>>

\* C8 as claimed: a line qualifies iff it starts with a digit immediately followed
\* by ". ", and the result is the trimmed text after that marker of the qualifying
\* lines, in order, cut to three.
C8_StrictMarkerOnly ==
    Parsed =>
        LET qualifying == SelectSeq(LinesOf(completion.text), QualifiesStrictly)
        IN Len(qualifying) > 0 =>
              suggestions.value =
                  FirstThree([k \in 1..Len(qualifying) |-> AfterLeadingMarker(qualifying[k])])

\* C9: whatever path generate_suggested_responses takes (numbered lines, the
\* fallback to non-empty lines, the empty return, the failed completion), its
\* result has at most three entries.
C9_AtMostThree == suggestions.returned => Len(suggestions.value) <= 3

\* C9 witness: four plain lines came back and three were kept.
C9_Witness ==
    /\ Parsed
    /\ completion.text = <<"b", "\n", "c", "\n", "d", "\n", "a">>
    /\ suggestions.value = <<(<<"b">>), (<<"c">>), (<<"d">>)>>

-----------------------------------------------------------------------------
(* Properties of the handlers, checked under Spec and SpecNoClear *)

\* The step in which the running handler fn returns.
Returns(fn) == inflight.fn = fn /\ inflight' = Idle

\* The calls of the handler started last that went to fn.
CallsTo(fn) == {k \in DOMAIN calls : calls[k].fn = fn}

FailedCallTo(fn) == \E k \in CallsTo(fn) : ~calls[k].ok

\* C1: create_and_download_study_guide on an empty transcript returns an absent
\* artifact and the "no conversation" status, and issues no completion call and
\* no renderer call.
C1_EmptyTranscriptExport ==
    [][(Returns("create_and_download_study_guide") /\ Len(inflight.chat_history) = 0)
          => /\ study_guide_download'.value = None
             /\ study_guide_output' = PleaseConverse
             /\ \A k \in DOMAIN calls' :
                   calls'[k].fn \notin {"generate_study_guide_content", "create_pdf",
                                        "create_text_file"}]_vars

\* C1 witness: the export handler has returned the "no conversation" status.
C1_Witness ==
    /\ hist.last = "create_and_download_study_guide"
    /\ inflight = Idle
    /\ study_guide_output = PleaseConverse
    /\ study_guide_download.value = None
    /\ calls = <<>>

\* Both renderers were called and both failed.
BothRenderersFailed == FailedCallTo("create_pdf") /\ FailedCallTo("create_text_file")

\* C2 as amended: on a non-empty transcript the export returns a PDF or a text
\* artifact; the artifact is absent only when the content-generation completion
\* fails or both renderers fail.
C2_ExportFallsBack ==
    [][(Returns("create_and_download_study_guide") /\ Len(inflight.chat_history) > 0)
          => \/ study_guide_download'.value \in {"guide.pdf", "guide.txt"}
             \/ /\ study_guide_download'.value = None
                /\ \/ FailedCallTo("generate_study_guide_content")'
                   \/ BothRenderersFailed']_vars

\* C2 witness: the PDF renderer failed and the export returned the text artifact.
C2_Witness ==
    /\ hist.last = "create_and_download_study_guide"
    /\ inflight = Idle
    /\ FailedCallTo("create_pdf")
    /\ study_guide_download = [value |-> "guide.txt", visible |-> TRUE]

\* C2 as claimed: on a non-empty transcript the artifact is absent only when both
\* renderers fail.
C2_AbsentOnlyIfRenderersFail ==
    [][(Returns("create_and_download_study_guide") /\ Len(inflight.chat_history) > 0)
          => \/ study_guide_download'.value \in {"guide.pdf", "guide.txt"}
             \/ BothRenderersFailed']_vars

\* A turn with both of its texts: a non-empty user text and a reply or error text.
CompleteTurn(turn) ==
    /\ DOMAIN turn = 1..2
    /\ turn[1] \in Seq(STRING) /\ Len(turn[1]) > 0
    /\ turn[2] \in Seq(STRING)

\* C3: without clear-session, every step leaves the transcript unchanged or
\* extended by exactly one complete turn, the earlier turns untouched.
C3_AppendOnlyAtomic ==
    [][\/ chatbot' = chatbot
       \/ /\ Len(chatbot') = Len(chatbot) + 1
          /\ SubSeq(chatbot', 1, Len(chatbot)) = chatbot
          /\ CompleteTurn(chatbot'[Len(chatbot')])]_vars

\* C3 witness: a failed completion's turn was appended after an earlier turn.
C3_Witness ==
    /\ Len(chatbot) = 2
    /\ inflight = Idle
    /\ FailedCallTo("ai_tutor")
    /\ IsErrorMessage(chatbot[2][2])
    /\ ~IsErrorMessage(chatbot[1][2])

\* The transcription of the handler started last failed or heard nothing.
NothingHeard == \E k \in CallsTo("transcribe_audio") : ~calls[k].ok \/ Len(calls[k].text) = 0

\* C4 as claimed: when the completion or the transcription call of a submit
\* handler failed, or the transcription yielded nothing, the turn that handler
\* appended has an assistant text beginning with "Error".
C4_FailedTurnsCarryErrorPrefix ==
    (inflight = Idle /\ (FailedCallTo("ai_tutor") \/ NothingHeard))
        => (Len(chatbot) > 0 /\ IsErrorMessage(chatbot[Len(chatbot)][2]))

\* C5 as claimed: no handler starts while another handler is running.
C5_HandlersNeverInterleave == ~hist.overlap

\* C6 as claimed: clear-session leaves the transcript, the pending input, the
\* suggestions and the exported document empty, and a study-guide request issued
\* after it, before any further submit, returns the "no conversation" status and
\* no artifact.
C6_ExportAfterClearFindsNothing ==
    [][/\ (hist'.last = "clear_chat" /\ hist' # hist)
            => /\ chatbot' = <<>>
               /\ msg' = <<>>
               /\ \A i \in 1..3 : ~buttons'[i].visible
               /\ study_guide_download'.value = None
       /\ (Returns("create_and_download_study_guide") /\ hist.since = "guide")
            => /\ study_guide_output' = PleaseConverse
               /\ study_guide_download'.value = None]_vars

\* The messages of the completion call ai_tutor made for the turn appended last.
SentMessages == calls[CHOOSE k \in CallsTo("ai_tutor") : TRUE].messages

\* The transcript ai_tutor was given, and the utterance: the turn it led to is the last.
GivenHistory == SubSeq(chatbot, 1, Len(chatbot) - 1)

GivenUtterance == chatbot[Len(chatbot)][1]

\* The number of empty texts in the turns before turn k.
SkippedBefore(history, k) ==
    Cardinality({<<j, side>> \in (1..(k - 1)) \X {1, 2} : Len(history[j][side]) = 0})

AppendedAgain(once, twice) ==
    /\ Len(twice.chatbot) = Len(once.chatbot) + 1
    /\ SubSeq(twice.chatbot, 1, Len(once.chatbot)) = once.chatbot
    /\ [twice EXCEPT !.chatbot = once.chatbot] = once

\* Click-suggestion, request-study-guide and clear-session invoked twice in
\* succession on the interface ui leave it as one invocation leaves it.
OthersIdempotent(ui) ==
    /\ ClearOn(ClearOn(ui)) = ClearOn(ui)
    /\ \A i \in 1..3 :
          ui.buttons[i].visible =>
              ClickOn(ClickOn(ui, ui.buttons[i].value), ui.buttons[i].value)
                  = ClickOn(ui, ui.buttons[i].value)
    /\ \A o \in ExportOutcomes :
          \A once \in {GuideOn(ui, o)} : GuideOn(once, o) = once

\* C13 (amended): click-suggestion, request-study-guide and clear-session are
\* idempotent: invoked twice in succession with the same input and the same
\* outcomes of the hosted calls, they leave the transcript and the interface as
\* one invocation leaves them. So are submit-text with a blank message and
\* submit-audio with no recording. Submit-text with a message and submit-audio
\* with a recording are not: the second invocation appends one more turn and
\* leaves the rest of the interface as the first left it.
C13_IdempotentUnlessAppending ==
    \A ui \in {Ui} :
        /\ OthersIdempotent(ui)
        /\ \A o \in TextOutcomes :
              \A once \in {TextOn(ui, msg, o)} :
                  \A twice \in {TextOn(once, msg, o)} :
                      IF Strip(msg) = <<>>
                      THEN twice = once
                      ELSE AppendedAgain(once, twice)
        /\ \A audio \in AudioInputs, o \in AudioOutcomes :
              \A once \in {AudioOn(ui, audio, o)} :
                  \A twice \in {AudioOn(once, audio, o)} :
                      IF audio = None
                      THEN twice = once
                      ELSE AppendedAgain(once, twice)

\* The same message was submitted twice in succession with the same outcomes, and
\* the transcript holds its turn twice.
C13_Witness ==
    /\ Len(chatbot) = 2
    /\ chatbot[1] = chatbot[2]
    /\ chatbot[1][1] = <<"a">>
    /\ msg = <<>>

\* C13 as claimed: every handler, the two submit handlers included, invoked
\* twice in succession with the same input and the same outcomes leaves the
\* transcript and the interface as one invocation leaves them.
C13_HandlersIdempotent ==
    \A ui \in {Ui} :
        /\ OthersIdempotent(ui)
        /\ \A o \in TextOutcomes :
              \A once \in {TextOn(ui, msg, o)} : TextOn(once, msg, o) = once
        /\ \A audio \in AudioInputs, o \in AudioOutcomes :
              \A once \in {AudioOn(ui, audio, o)} : AudioOn(once, audio, o) = once

\* No button shows an empty suggestion or one that begins with "Error".
DisplayedSuggestionsSound ==
    \A i \in 1..3 :
        buttons[i].visible =>
            buttons[i].value # <<>> /\ ~StartsWith(buttons[i].value, ErrorPrefix)

\* The step in which a submit handler returns.
SubmitReturns == Returns("process_text_and_update") \/ Returns("process_audio_and_update")

\* The handler that returns in this step appended a turn; the turn's reply.
TurnAppended ==
    /\ chatbot' # <<>>
    /\ chatbot' = Append(inflight.chat_history, chatbot'[Len(chatbot')])

AppendedReply == chatbot'[Len(chatbot')][2]

\* The handler called fn.
Called(fn) == \E k \in DOMAIN calls' : calls'[k].fn = fn

\* The appended turn is a broken one: its reply begins with "Error", or the
\* recording's transcription gave nothing to ask the tutor.
BrokenTurn ==
    /\ TurnAppended
    /\ \/ StartsWith(AppendedReply, ErrorPrefix)
       \/ Called("transcribe_audio") /\ ~Called("ai_tutor")

\* C14: a submit handler calls speech synthesis only when the voice toggle it was
\* given is on and the reply of the turn it appends does not begin with "Error";
\* when the appended turn's reply begins with "Error" or the transcription
\* failed, it returns no audio and hides the three suggestion buttons; and no
\* button ever shows a suggestion that is empty or begins with "Error".
C14_SpeechAndSuggestionsGuarded ==
    /\ []DisplayedSuggestionsSound
    /\ [][SubmitReturns =>
             /\ Called("generate_speech") =>
                   /\ inflight.voice_enabled
                   /\ TurnAppended
                   /\ ~StartsWith(AppendedReply, ErrorPrefix)
             /\ BrokenTurn =>
                   /\ ~Called("generate_speech")
                   /\ audio_output' = None
                   /\ \A i \in 1..3 : ~buttons'[i].visible]_vars

\* A submit with the voice toggle on ended in a failed completion: the turn is in
\* the transcript, there is no audio and no button shows.
C14_Witness ==
    /\ inflight = Idle
    /\ hist.last \in {"process_text_and_update", "process_audio_and_update"}
    /\ voice_toggle
    /\ FailedCallTo("ai_tutor")
    /\ chatbot # <<>>
    /\ StartsWith(chatbot[Len(chatbot)][2], ErrorPrefix)
    /\ CallsTo("generate_speech") = {}
    /\ audio_output = None
    /\ \A i \in 1..3 : ~buttons[i].visible

-----------------------------------------------------------------------------
(* Properties of the study guide compiler, checked under CompilerSpec *)

\* The lines create_pdf walks.
PdfLines == LinesOf(Trimmed(guide_text.value))

\* Those among them with something to draw.
Inked(lines) == {i \in DOMAIN lines : Trimmed(lines[i]) # <<>>}

\* Those among the latter with a text-drawing call that raises.
Failing(inked) == {i \in inked : render_outcome.faults[i] # 0}

\* The blocks of text on the page, top to bottom.
Blocks == SelectSeq(rendered.pages, LAMBDA item : item.op = "multi_cell")

\* The k-th of a set of line numbers.
Nth(inked, k) == CHOOSE i \in inked : Cardinality({j \in inked : j <= i}) = k

C12_BeginsWithLevelOneHeading ==
    (guide_text.returned /\ guide_completion.ok) =>
        /\ StartsWith(guide_text.value, <<"#", " ">>)
        /\ guide_text.value =
              IF StartsWith(guide_completion.text, <<"#", " ">>)
              THEN guide_completion.text
              ELSE GuideHeading \o guide_completion.text

====
